---- MODULE Spec2Model ----
(***************************************************************************)
(* Model of the command-line chat bot in chatbot.py / database.py.         *)
(*                                                                         *)
(* The program is a single sequential process.  After the bootstrap        *)
(* (database.py) has made the chat_history table, the chat loop reads a    *)
(* line, runs the two LangGraph nodes user_node -> assistant_node, formats *)
(* the buffer memory and upserts it into chat_history in one transaction.  *)
(* Every statement of the loop that has an effect visible outside it is    *)
(* one action; pc is the statement the process is about to execute.        *)
(*                                                                         *)
(* Text is modelled as a sequence of one-character strings, so that        *)
(* str.strip() and str.lower() are computed character by character.        *)
(***************************************************************************)
EXTENDS Integers, Sequences, FiniteSets, TLC

VARIABLES
    pc,                 \* statement of chatbot.py about to be executed
    exc,                \* exception that ended the process ("none" while it runs)
    user_input,         \* chatbot.py:72
    messages,           \* memory.chat_memory.messages
    response,           \* chatbot.py:49, response.content
    prompt,             \* argument of the last llm.invoke call
    formatted_messages, \* chatbot.py:82
    rows,               \* committed content of table chat_history
    tx,                 \* the open transaction of conn (uncommitted table content)
    serial,             \* last value of chat_history_id_seq
    now,                \* the store's clock (CURRENT_TIMESTAMP)
    typed,              \* lines read from the terminal, in order
    out,                \* lines written to the terminal, in order
    steps,              \* effects of the current turn, in the order they happened
    call                \* argument and effect of the last repository upsert

vars == << pc, exc, user_input, messages, response, prompt, formatted_messages,
           rows, tx, serial, now, typed, out, steps, call >>

-----------------------------------------------------------------------------
(* Bounds of the model *)

\* turns the chat loop may start in one run
MaxTurns == 3

\* upserts the repository harness (SpecUpsert) may issue
MaxCalls == 3

-----------------------------------------------------------------------------
(* Text *)

Str0 == << >>
Str_hello == << "h", "e", "l", "l", "o" >>
Str_hi_there == << "h", "i", " ", "t", "h", "e", "r", "e" >>
Str_ok == << "o", "k" >>
Str_exit == << "e", "x", "i", "t" >>
Str_quit == << "q", "u", "i", "t" >>
Str_EXIT == << "E", "X", "I", "T" >>
Str_Quit_ws == << " ", " ", "Q", "u", "i", "t", " " >>
Str_exit_now == << "e", "x", "i", "t", " ", "n", "o", "w" >>

\* lines the user may type: the sentinels in several spellings, and lines that
\* are not sentinels (an ordinary line, the empty line, a line that only
\* starts with a sentinel)
InputLines == { Str_exit, Str_quit, Str_EXIT, Str_Quit_ws,
                Str_hello, Str0, Str_exit_now }

\* replies the completion endpoint may give
Replies == { Str_hi_there, Str_ok }

Range(s) == { s[i] : i \in DOMAIN s }

Last(s) == s[Len(s)]

\* str.isspace() on one character
IsSpace(c) == c \in { " ", "\t", "\n", "\r" }

\* str.lower() on one character
LowerChar(c) ==
    CASE c = "E" -> "e"
      [] c = "X" -> "x"
      [] c = "I" -> "i"
      [] c = "T" -> "t"
      [] c = "Q" -> "q"
      [] c = "U" -> "u"
      [] OTHER -> c

\* str.lower()
lower(s) == [ i \in 1..Len(s) |-> LowerChar(s[i]) ]

RECURSIVE lstrip(_)
lstrip(s) ==
    IF s = << >> THEN s
    ELSE IF IsSpace(Head(s)) THEN lstrip(Tail(s)) ELSE s

RECURSIVE rstrip(_)
rstrip(s) ==
    IF s = << >> THEN s
    ELSE IF IsSpace(Last(s)) THEN rstrip(SubSeq(s, 1, Len(s) - 1)) ELSE s

\* str.strip()
strip(s) == rstrip(lstrip(s))

is_exit_mut(line) == line \in { Str_exit, Str_quit }

\* chatbot.py:73, user_input.strip().lower() in ["exit", "quit"]
is_exit(line) == lower(strip(line)) \in { Str_exit, Str_quit }

-----------------------------------------------------------------------------
(* Program constants *)

\* chatbot.py:29, str(uuid.uuid4()): fresh for the run
conversation_id == "run-uuid"

\* conversation id of a row an earlier run left in the table
other_conversation_id == "old-uuid"

\* chatbot.py:26
USER_ID == "abc"

\* chatbot.py:30, datetime.now(timezone.utc) at process start
created_at == 1

-----------------------------------------------------------------------------
(* Messages *)

\* langchain HumanMessage: add_user_message(text) appends HumanMessage(content=text),
\* whose type attribute is "human"
HumanMessage(text) == [ type |-> "human", content |-> text ]

\* langchain AIMessage: add_ai_message(text) appends AIMessage(content=text),
\* whose type attribute is "ai"
AIMessage(text) == [ type |-> "ai", content |-> text ]

format_mut(msgs) ==
    [ i \in 1..Len(msgs) |->
        [ role |-> IF msgs[i].type = "human" THEN "ai" ELSE "human",
          content |-> msgs[i].content ] ]

\* chatbot.py:82-85, [{"role": msg.type, "content": msg.content} for msg in ...];
\* json.dumps of it and the JSONB column keep the array order and each object's
\* two members, so the stored document is this sequence of records
format(msgs) ==
    [ i \in 1..Len(msgs) |-> [ role |-> msgs[i].type, content |-> msgs[i].content ] ]

-----------------------------------------------------------------------------
(* Table chat_history *)

\* a row an earlier run of the program committed
OldRow ==
    [ id |-> 1, conversation_id |-> other_conversation_id, user_id |-> USER_ID,
      created_at |-> 0, updated_at |-> 0,
      messages |-> format(<< HumanMessage(Str_hello), AIMessage(Str_ok) >>) ]

RowsOf(table, cid) == { r \in table : r.conversation_id = cid }

upsert_replace(table, id, cid, uid, cat, msgs, ts) ==
    { r \in table : r.conversation_id # cid }
        \cup { [ id |-> id, conversation_id |-> cid, user_id |-> uid,
                 created_at |-> cat, messages |-> msgs, updated_at |-> ts ] }

upsert_do_nothing(table, id, cid, uid, cat, msgs, ts) ==
    IF RowsOf(table, cid) # {}
    THEN table
    ELSE table \cup { [ id |-> id, conversation_id |-> cid, user_id |-> uid,
                        created_at |-> cat, messages |-> msgs, updated_at |-> ts ] }

\* chatbot.py:91-96 on the table of database.py:50-81:
\* INSERT ... ON CONFLICT (conversation_id) DO UPDATE SET messages = EXCLUDED.messages.
\* id is the value drawn from the SERIAL sequence, ts is CURRENT_TIMESTAMP: the
\* default of updated_at on insert, and what the BEFORE UPDATE trigger assigns.
upsert(table, id, cid, uid, cat, msgs, ts) ==
    IF RowsOf(table, cid) # {}
    THEN { IF r.conversation_id = cid
           THEN [ r EXCEPT !.messages = msgs, !.updated_at = ts ]
           ELSE r : r \in table }
    ELSE table \cup { [ id |-> id, conversation_id |-> cid, user_id |-> uid,
                        created_at |-> cat, messages |-> msgs, updated_at |-> ts ] }

NoTx == [ open |-> FALSE, rows |-> {} ]

NoCall ==
    [ n |-> 0, cid |-> "", msgs |-> << >>, prev_cid |-> "", prev_msgs |-> << >>,
      before |-> {} ]

\* tables the bootstrap may find: a new one, or one with rows of earlier runs
InitialTables == { {}, { OldRow } }

-----------------------------------------------------------------------------
(* Initial state: chatbot.py:68, the bootstrap of lines 64-66 has succeeded *)

Init ==
    /\ pc = "AwaitingInput"
    /\ exc = "none"
    /\ user_input = Str0
    /\ messages = << >>
    /\ response = Str0
    /\ prompt = << >>
    /\ formatted_messages = << >>
    /\ rows \in InitialTables
    /\ tx = NoTx
    /\ serial = Cardinality(rows)
    /\ now = created_at
    /\ typed = << >>
    /\ out = << [ kind |-> "banner", text |-> Str0 ] >>
    /\ steps = << >>
    /\ call = NoCall

\* turns started so far
Turns == Cardinality({ i \in DOMAIN typed : ~ is_exit(typed[i]) })

Printed(kind, text) == Append(out, [ kind |-> kind, text |-> text ])

-----------------------------------------------------------------------------
(* The chat loop, chatbot.py:71-101 *)

\* chatbot.py:72-75: input() returns a line; a sentinel prints the farewell and
\* breaks out of the loop, any other line goes to graph.invoke
read_input ==
    /\ pc = "AwaitingInput"
    /\ \E line \in InputLines :
        /\ is_exit(line) \/ Turns < MaxTurns
        /\ typed' = Append(typed, line)
        /\ IF is_exit(line)
           THEN /\ pc' = "Terminated"
                /\ out' = Printed("bye", Str0)
                /\ UNCHANGED << user_input, steps >>
           ELSE /\ pc' = "user_node"
                /\ user_input' = line
                /\ steps' = << >>
                /\ UNCHANGED out
    /\ UNCHANGED << exc, messages, response, prompt, formatted_messages,
                    rows, tx, serial, now, call >>

\* chatbot.py:72: input() raises EOFError at end of input; nothing catches it
read_eof ==
    /\ pc = "AwaitingInput"
    /\ pc' = "Crashed"
    /\ exc' = "EOFError"
    /\ UNCHANGED << user_input, messages, response, prompt, formatted_messages,
                    rows, tx, serial, now, typed, out, steps, call >>

user_node_mut ==
    /\ pc = "user_node"
    /\ pc' = "assistant_node"
    /\ steps' = Append(steps, "append_user")
    /\ UNCHANGED << exc, user_input, messages, response, prompt, formatted_messages,
                    rows, tx, serial, now, typed, out, call >>

\* chatbot.py:43-46, entered from graph.invoke (line 79)
user_node ==
    /\ pc = "user_node"
    /\ messages' = Append(messages, HumanMessage(user_input))
    /\ pc' = "assistant_node"
    /\ steps' = Append(steps, "append_user")
    /\ UNCHANGED << exc, user_input, response, prompt, formatted_messages,
                    rows, tx, serial, now, typed, out, call >>

\* chatbot.py:49, llm.invoke returns a reply
llm_invoke_ok ==
    /\ pc = "assistant_node"
    /\ \E reply \in Replies : response' = reply
    /\ prompt' = messages
    /\ pc' = "add_ai_message"
    /\ steps' = Append(steps, "complete")
    /\ UNCHANGED << exc, user_input, messages, formatted_messages,
                    rows, tx, serial, now, typed, out, call >>

llm_invoke_caught ==
    /\ pc = "assistant_node"
    /\ prompt' = messages
    /\ pc' = "AwaitingInput"
    /\ out' = Printed("error", Str0)
    /\ UNCHANGED << exc, user_input, messages, response, formatted_messages,
                    rows, tx, serial, now, typed, steps, call >>

\* chatbot.py:49, llm.invoke raises: assistant_node has no handler, graph.invoke
\* re-raises, and line 79 is outside the try of lines 88-101, so the exception
\* leaves the while loop and ends the process with a traceback
llm_invoke_raises ==
    /\ pc = "assistant_node"
    /\ prompt' = messages
    /\ pc' = "Crashed"
    /\ exc' = "RemoteError"
    /\ UNCHANGED << user_input, messages, response, formatted_messages,
                    rows, tx, serial, now, typed, out, steps, call >>

\* chatbot.py:50
add_ai_message_prints_first ==
    /\ pc = "add_ai_message"
    /\ out' = Printed("assistant", response)
    /\ messages' = Append(messages, AIMessage(response))
    /\ pc' = "format"
    /\ steps' = steps \o << "print_reply", "append_reply" >>
    /\ UNCHANGED << exc, user_input, response, prompt, formatted_messages,
                    rows, tx, serial, now, typed, call >>

add_ai_message ==
    /\ pc = "add_ai_message"
    /\ messages' = Append(messages, AIMessage(response))
    /\ pc' = "print_reply"
    /\ steps' = Append(steps, "append_reply")
    /\ UNCHANGED << exc, user_input, response, prompt, formatted_messages,
                    rows, tx, serial, now, typed, out, call >>

print_reply_skips_persist ==
    /\ pc = "print_reply"
    /\ out' = Printed("assistant", response)
    /\ pc' = "AwaitingInput"
    /\ steps' = Append(steps, "print_reply")
    /\ UNCHANGED << exc, user_input, messages, response, prompt, formatted_messages,
                    rows, tx, serial, now, typed, call >>

\* chatbot.py:51-52, then graph.invoke returns to line 79
print_reply ==
    /\ pc = "print_reply"
    /\ out' = Printed("assistant", response)
    /\ pc' = "format"
    /\ steps' = Append(steps, "print_reply")
    /\ UNCHANGED << exc, user_input, messages, response, prompt, formatted_messages,
                    rows, tx, serial, now, typed, call >>

\* chatbot.py:82-85
format_messages ==
    /\ pc = "format"
    /\ formatted_messages' = format(messages)
    /\ pc' = "connect"
    /\ UNCHANGED << exc, user_input, messages, response, prompt,
                    rows, tx, serial, now, typed, out, steps, call >>

\* chatbot.py:100-101: the handler prints the error and the loop goes on
except_Exception ==
    /\ pc' = "AwaitingInput"
    /\ out' = Printed("error", Str0)
    /\ tx' = NoTx

\* chatbot.py:89-90, psycopg2.connect succeeds; time has passed since the last write
connect_ok ==
    /\ pc = "connect"
    /\ pc' = "execute"
    /\ now' = now + 1
    /\ steps' = Append(steps, "upsert")
    /\ UNCHANGED << exc, user_input, messages, response, prompt, formatted_messages,
                    rows, tx, serial, typed, out, call >>

\* chatbot.py:89, psycopg2.connect raises
connect_raises ==
    /\ pc = "connect"
    /\ except_Exception
    /\ now' = now + 1
    /\ steps' = Append(steps, "upsert")
    /\ UNCHANGED << exc, user_input, messages, response, prompt, formatted_messages,
                    rows, serial, typed, call >>

\* chatbot.py:91-96, cursor.execute runs the statement inside the transaction
\* psycopg2 opens for it; the sequence value is consumed whether or not the row
\* conflicts
execute_ok ==
    /\ pc = "execute"
    /\ serial' = serial + 1
    /\ tx' = [ open |-> TRUE,
               rows |-> upsert(rows, serial + 1, conversation_id, USER_ID, created_at,
                               formatted_messages, now) ]
    /\ pc' = "commit"
    /\ UNCHANGED << exc, user_input, messages, response, prompt, formatted_messages,
                    rows, now, typed, out, steps, call >>

\* chatbot.py:91-96, cursor.execute raises
execute_raises ==
    /\ pc = "execute"
    /\ except_Exception
    /\ UNCHANGED << exc, user_input, messages, response, prompt, formatted_messages,
                    rows, serial, now, typed, steps, call >>

\* chatbot.py:97-99, conn.commit makes the transaction's table content the
\* committed one
commit_ok ==
    /\ pc = "commit"
    /\ rows' = tx.rows
    /\ tx' = NoTx
    /\ pc' = "AwaitingInput"
    /\ UNCHANGED << exc, user_input, messages, response, prompt, formatted_messages,
                    serial, now, typed, out, steps, call >>

commit_raises_after_write ==
    /\ pc = "commit"
    /\ except_Exception
    /\ rows' = tx.rows
    /\ UNCHANGED << exc, user_input, messages, response, prompt, formatted_messages,
                    serial, now, typed, steps, call >>

\* chatbot.py:97, conn.commit raises: the transaction is not committed and is
\* rolled back when the connection goes away
commit_raises ==
    /\ pc = "commit"
    /\ except_Exception
    /\ UNCHANGED << exc, user_input, messages, response, prompt, formatted_messages,
                    rows, serial, now, typed, steps, call >>

Next ==
    \/ read_input
    \/ read_eof
    \/ user_node
    \/ llm_invoke_ok
    \/ llm_invoke_raises
    \/ add_ai_message
    \/ print_reply
    \/ format_messages
    \/ connect_ok
    \/ connect_raises
    \/ execute_ok
    \/ execute_raises
    \/ commit_ok
    \/ commit_raises

Spec == Init /\ [][Next]_vars

-----------------------------------------------------------------------------
(* The repository write on its own: the statement of chatbot.py:89-99 applied  *)
(* to arbitrary arguments, so that two writes in succession can carry the same *)
(* conversation id and the same messages (the chat loop never does that: its   *)
(* snapshot grows between two writes).                                         *)

\* documents a caller may pass as messages
MessageDocs ==
    { format(<< HumanMessage(Str_hello) >>),
      format(<< HumanMessage(Str_hello), AIMessage(Str_hi_there) >>) }

InitUpsert ==
    /\ pc = "repository"
    /\ exc = "none"
    /\ user_input = Str0
    /\ messages = << >>
    /\ response = Str0
    /\ prompt = << >>
    /\ formatted_messages = << >>
    /\ rows \in InitialTables
    /\ tx = NoTx
    /\ serial = Cardinality(rows)
    /\ now = created_at
    /\ typed = << >>
    /\ out = << >>
    /\ steps = << >>
    /\ call = NoCall

\* chatbot.py:89-99 with connect, execute and commit all succeeding
repo_upsert ==
    /\ pc = "repository"
    /\ call.n < MaxCalls
    /\ \E cid \in { conversation_id, other_conversation_id },
          uid \in { USER_ID, "xyz" },
          cat \in { created_at, created_at + 1 },
          msgs \in MessageDocs :
        /\ rows' = upsert(rows, serial + 1, cid, uid, cat, msgs, now + 1)
        /\ call' = [ n |-> call.n + 1, cid |-> cid, msgs |-> msgs,
                     prev_cid |-> call.cid, prev_msgs |-> call.msgs,
                     before |-> rows ]
    /\ serial' = serial + 1
    /\ now' = now + 1
    /\ UNCHANGED << pc, exc, user_input, messages, response, prompt,
                    formatted_messages, tx, typed, out, steps >>

NextUpsert == repo_upsert

SpecUpsert == InitUpsert /\ [][NextUpsert]_vars

-----------------------------------------------------------------------------
(* Vocabulary of the properties *)

IsPrefix(s, t) == Len(s) <= Len(t) /\ s = SubSeq(t, 1, Len(s))

\* the replies written to the terminal, in order
RepliesPrinted == SelectSeq(out, LAMBDA o : o.kind = "assistant")

\* the turns whose completion call succeeded
CompletedTurns == Len(RepliesPrinted)

\* the loop waits for input and the turn before it ended with a committed write
AfterSuccessfulPersist ==
    /\ pc = "AwaitingInput"
    /\ Last(out).kind = "assistant"

\* the row of this run, when there is exactly one
RunRows == RowsOf(rows, conversation_id)

\* the dialogue as the terminal saw it, each line typed given role u and each
\* reply printed given role a
Dialogue(u, a) ==
    [ i \in 1..(2 * CompletedTurns) |->
        IF i % 2 = 1
        THEN [ role |-> u, content |-> typed[(i + 1) \div 2] ]
        ELSE [ role |-> a, content |-> RepliesPrinted[i \div 2].text ] ]

\* the input lines the claims call sentinels, spelled out
SentinelLines == { Str_exit, Str_quit, Str_EXIT, Str_Quit_ws }

\* a table without its updated_at column
WithoutUpdatedAt(table) ==
    { [ id |-> r.id, conversation_id |-> r.conversation_id, user_id |-> r.user_id,
        created_at |-> r.created_at, messages |-> r.messages ] : r \in table }

\* the history given to llm.invoke is the whole conversation at the call, and
\* it ends with the user message of the turn
PromptIsFullHistory ==
    "complete" \in Range(steps) =>
        /\ Len(prompt) > 0
        /\ Last(prompt) = HumanMessage(user_input)
        /\ IsPrefix(prompt, messages)
        /\ Len(messages) - Len(prompt)
             = (IF "append_reply" \in Range(steps) THEN 1 ELSE 0)

-----------------------------------------------------------------------------
(* Properties *)

\* C1: whenever the loop is back at the prompt (or has ended) and the turn
\* before appended an assistant reply, that turn also attempted the upsert, after
\* the reply was appended and with the snapshot of the whole conversation.
C1_PersistAfterReply ==
    (pc \in { "AwaitingInput", "Terminated", "Crashed" }
        /\ "append_reply" \in Range(steps))
    => /\ "upsert" \in Range(steps)
       /\ Last(steps) = "upsert"
       /\ formatted_messages = format(messages)

C1_Witness ==
    /\ pc = "AwaitingInput"
    /\ Len(typed) = 2
    /\ "append_reply" \in Range(steps)
    /\ "upsert" \in Range(steps)

\* C2: a failing completion call does not end the loop: the process is never
\* ended by the completion call's exception.
C2_CompletionFailureCaught ==
    ~ (pc = "Crashed" /\ exc = "RemoteError")

\* C3: a step of the persist phase that fails (prints the error) returns the
\* loop to the prompt with the process alive, the conversation as it was when
\* the snapshot was taken, and the committed table unchanged; no step of the
\* persist phase changes the conversation.
C3_PersistFailureHarmless ==
    [][ (pc \in { "connect", "execute", "commit" })
        => /\ messages' = messages
           /\ (out' # out
                 => /\ Last(out').kind = "error"
                    /\ pc' = "AwaitingInput"
                    /\ exc' = "none"
                    /\ format(messages') = formatted_messages
                    /\ tx'.open = FALSE
                    /\ rows' = rows) ]_vars

C3_Witness ==
    /\ pc = "AwaitingInput"
    /\ Len(typed) = 2
    /\ Last(out).kind = "error"
    /\ tx.open = FALSE
    /\ Len(messages) = 4
    /\ \E r \in RunRows : Len(r.messages) = 2

\* C4: after any successful persist the run has exactly one row and its messages
\* are the whole in-memory list at that moment, also when earlier persists failed.
C4_Convergence ==
    AfterSuccessfulPersist
    => /\ Cardinality(RunRows) = 1
       /\ \A r \in RunRows :
            /\ Len(r.messages) = Len(messages)
            /\ \A i \in 1..Len(messages) :
                 /\ r.messages[i].role = messages[i].type
                 /\ r.messages[i].content = messages[i].content

C4_Witness ==
    /\ AfterSuccessfulPersist
    /\ Len(out) = 4
    /\ out[2].kind = "assistant"
    /\ out[3].kind = "error"
    /\ \E r \in RunRows : Len(r.messages) = 4

\* C5: in every state the run's row, if any, holds a prefix of the in-memory
\* list that ends on a turn boundary: an even number of messages, each user
\* message followed by an assistant reply.
C5_PrefixComplete ==
    \A r \in RunRows :
        /\ Len(r.messages) <= Len(messages)
        /\ Len(r.messages) % 2 = 0
        /\ \A i \in 1..Len(r.messages) :
             /\ r.messages[i].content = messages[i].content
             /\ r.messages[i].role = messages[i].type
             /\ messages[i].type = (IF i % 2 = 1 THEN "human" ELSE "ai")

C5_Witness ==
    /\ Len(messages) = 5
    /\ \E r \in RunRows : Len(r.messages) = 2

\* C6: at the prompt the conversation holds two messages per completed turn.
C6_TwoPerTurn ==
    pc = "AwaitingInput" => Len(messages) = 2 * CompletedTurns

C6_Witness ==
    /\ pc = "AwaitingInput"
    /\ CompletedTurns = 2
    /\ Len(messages) = 4

\* C7: reading a sentinel line ends the loop and changes neither the
\* conversation nor the store nor calls the completion; reading any other line
\* starts a turn with that line; once ended, the loop does nothing more.
C7_ExitSentinel ==
    [][ /\ pc # "Terminated"
        /\ (pc = "AwaitingInput" /\ typed' # typed)
             => IF Last(typed') \in SentinelLines
                THEN /\ pc' = "Terminated"
                     /\ messages' = messages
                     /\ prompt' = prompt
                     /\ steps' = steps
                     /\ rows' = rows
                     /\ tx' = tx
                     /\ serial' = serial
                ELSE /\ pc' = "user_node"
                     /\ user_input' = Last(typed') ]_vars

C7_Witness ==
    /\ pc = "Terminated"
    /\ Last(typed) = Str_Quit_ws
    /\ Len(messages) = 2
    /\ \E r \in RunRows : Len(r.messages) = 2

C9_UpsertIdempotent ==
    (call.n >= 2 /\ call.cid = call.prev_cid /\ call.msgs = call.prev_msgs)
    => /\ Cardinality(RowsOf(rows, call.cid)) = 1
       /\ WithoutUpdatedAt(rows) = WithoutUpdatedAt(call.before)

C9_Witness ==
    /\ call.n >= 2
    /\ call.cid = call.prev_cid
    /\ call.msgs = call.prev_msgs
    /\ rows # call.before

\* C10 as stated: in a turn the effects happen in the order append input,
\* completion on the full history, append reply, upsert, print reply.
C10_PrintAfterUpsert ==
    /\ IsPrefix(steps, << "append_user", "complete", "append_reply",
                          "upsert", "print_reply" >>)
    /\ PromptIsFullHistory

\* C10 amended: in a turn the effects happen in the order append input,
\* completion on the full history, append reply, print reply, upsert.
C10_TurnOrder ==
    /\ IsPrefix(steps, << "append_user", "complete", "append_reply",
                          "print_reply", "upsert" >>)
    /\ PromptIsFullHistory

C10_Witness ==
    /\ pc = "AwaitingInput"
    /\ Len(typed) = 2
    /\ steps = << "append_user", "complete", "append_reply", "print_reply", "upsert" >>

====
